---- MODULE Spec2Model ----
(***************************************************************************)
(* The metric / forecast / validation pipeline of process_data.py:         *)
(* feature_engineering, calculate_district_metrics, generate_forecast and  *)
(* run_backtest_validation, applied in the order app.py calls them.        *)
(*                                                                         *)
(* A DataFrame is [columns |-> set of column names, rows |-> sequence of   *)
(* records].  A float64 is a pair <<n, d>>: d > 0 is the rational n/d,     *)
(* <<1,0>> is +inf, <<-1,0>> is -inf and <<0,0>> is NaN; arithmetic is     *)
(* exact on the finite values and IEEE-754 on the others.                  *)
(***************************************************************************)
EXTENDS Integers, Sequences, FiniteSets, TLC

\* ------------------------------------------------------------------ bounds
MaxRows == 4        \* rows of a small biometric table and its enrolment table together
MaxDays == 2        \* largest forecast horizon `days`
TailLen == 2        \* free trailing values of a daily series
MaxExtra == 1       \* dated days a series has beyond the 14-day threshold

\* ------------------------------------------------------- program constants
TRAIL == 14         \* daily.tail(14) and len(last_14) < 14
NaT == 0            \* a date clean_data could not parse (errors='coerce')

\* ---------------------------------------------------------------- float64
NaN == <<0, 0>>
PInf == <<1, 0>>
NInf == <<-1, 0>>
Abs(x) == IF x < 0 THEN -x ELSE x
Sgn(x) == IF x > 0 THEN 1 ELSE IF x < 0 THEN -1 ELSE 0

RECURSIVE Gcd(_, _)
Gcd(a, b) == IF b = 0 THEN a ELSE Gcd(b, a % b)

\* the float n/d, in lowest terms; n/0 is an infinity or NaN
Norm(n, d) ==
    IF d = 0 THEN <<Sgn(n), 0>>
    ELSE LET g == Gcd(Abs(n), Abs(d)) IN
         IF d > 0 THEN <<n \div g, d \div g>> ELSE <<(-n) \div g, (-d) \div g>>

F(i) == <<i, 1>>
IsNaN(a) == a = NaN
IsInf(a) == a[2] = 0 /\ a[1] # 0
IsFinite(a) == a[2] # 0

FNeg(a) == <<-a[1], a[2]>>
FAdd(a, b) ==
    IF IsNaN(a) \/ IsNaN(b) THEN NaN
    ELSE IF IsInf(a) /\ IsInf(b) THEN (IF a = b THEN a ELSE NaN)
    ELSE IF IsInf(a) THEN a
    ELSE IF IsInf(b) THEN b
    ELSE Norm(a[1] * b[2] + b[1] * a[2], a[2] * b[2])
FSub(a, b) == FAdd(a, FNeg(b))
\* the factors are cancelled crosswise first, so that no intermediate is larger
\* than the product in lowest terms
FMul(a, b) ==
    IF a[2] = 0 \/ b[2] = 0 THEN <<Sgn(a[1]) * Sgn(b[1]), 0>>
    ELSE LET g1 == Gcd(Abs(a[1]), b[2])
             g2 == Gcd(Abs(b[1]), a[2])
         IN  <<(a[1] \div g1) * (b[1] \div g2), (a[2] \div g2) * (b[2] \div g1)>>
\* 1/b: 1/0 is +inf (the counters are non-negative, so every zero is +0)
Recip(b) ==
    IF b[1] > 0 THEN <<b[2], b[1]>>
    ELSE IF b[1] < 0 THEN <<-b[2], -b[1]>>
    ELSE IF b[2] = 0 THEN NaN ELSE PInf
FDiv(a, b) == FMul(a, Recip(b))

\* comparisons: every comparison with NaN is false
FLt(a, b) ==
    IF IsNaN(a) \/ IsNaN(b) THEN FALSE
    ELSE IF IsInf(a) \/ IsInf(b) THEN
         (IF IsInf(a) /\ IsInf(b) THEN a[1] < b[1]
          ELSE IF IsInf(a) THEN a[1] < 0 ELSE b[1] > 0)
    ELSE a[1] * b[2] < b[1] * a[2]
FGt(a, b) == FLt(b, a)
FLe(a, b) == ~IsNaN(a) /\ ~IsNaN(b) /\ ~FLt(b, a)
FGe(a, b) == FLe(b, a)

\* int(x) of a finite float: truncation toward zero
Trunc(a) == IF a[1] >= 0 THEN a[1] \div a[2] ELSE -((-a[1]) \div a[2])

\* ------------------------------------------------------------ input tables
\* pd.DataFrame(): what load_dataset returns when it finds no file
EmptyDataFrame == [columns |-> {}, rows |-> <<>>]
Empty(df) == df.columns = {} \/ df.rows = <<>>

Keys ==
    << [state |-> "S1", district |-> "A"],
       [state |-> "S1", district |-> "B"],
       [state |-> "S2", district |-> "A"] >>
States == {Keys[k].state : k \in DOMAIN Keys}
BioCounts == << <<0, 0>>, <<100, 0>>, <<100, 100>> >>
SmallCounts == << <<0, 0>>, <<100, 0>>, <<300, 100>> >>
EnrolCounts == << <<0, 0, 0>>, <<10, 10, 10>> >>
SmallDates == <<1, 2, NaT>>

BioColumns == {"state", "district", "date", "bio_age_5_17", "bio_age_17_"}
EnrolColumns == {"state", "district", "age_0_5", "age_5_17", "age_18_greater"}

BioRow(k, date, c) ==
    [state |-> Keys[k].state, district |-> Keys[k].district, date |-> date,
     bio_age_5_17 |-> c[1], bio_age_17_ |-> c[2]]
EnrolRow(k, c) ==
    [state |-> Keys[k].state, district |-> Keys[k].district,
     age_0_5 |-> c[1], age_5_17 |-> c[2], age_18_greater |-> c[3]]

\* a table is a bag of rows: the non-decreasing sequences of row types. The small
\* biometric tables hold the two districts of S1; the daily series bring in S2.
NonDecr(n, m) ==
    {f \in [1..n -> 0..(m - 1)] : \A i \in 1..(n - 1) : f[i] <= f[i + 1]}
BioType(t) ==
    BioRow((t \div 9) + 1, SmallDates[((t \div 3) % 3) + 1], SmallCounts[(t % 3) + 1])
EnrolType(t) == EnrolRow((t \div 2) + 1, EnrolCounts[(t % 2) + 1])

\* the table without its date column
DropDate(df) ==
    [columns |-> df.columns \ {"date"},
     rows |-> [i \in DOMAIN df.rows |->
                 [c \in (DOMAIN df.rows[i]) \ {"date"} |-> df.rows[i][c]]]]

SmallBio(n) ==
    {[columns |-> BioColumns, rows |-> [i \in 1..n |-> BioType(f[i])]] :
        f \in NonDecr(n, 18)}
EnrolTables(n) ==
    {[columns |-> EnrolColumns, rows |-> [i \in 1..n |-> EnrolType(f[i])]] :
        f \in NonDecr(n, 4)}

\* a daily series: one row per day 1..n, a constant run and TailLen free values,
\* and at most one more row (a second row of a day, a new day or an undated row)
SeriesRows(n, a, tail) ==
    [i \in 1..n |->
        BioRow(1, i, BioCounts[IF i <= n - TailLen THEN a ELSE tail[i - (n - TailLen)]])]
SeriesBase ==
    {SeriesRows(n, a, tail) :
        n \in (TRAIL - 1)..(TRAIL + MaxExtra),
        a \in DOMAIN BioCounts,
        tail \in [1..TailLen -> DOMAIN BioCounts]}
SeriesBio ==
    {[columns |-> BioColumns, rows |-> s] : s \in SeriesBase}
    \cup {[columns |-> BioColumns, rows |-> Append(s, BioRow(k, d, BioCounts[c]))] :
            s \in SeriesBase, k \in DOMAIN Keys,
            d \in {NaT, TRAIL - 1, TRAIL}, c \in {3}}

\* ------------------------------------------------------------------- state
VARIABLES
    bio_df,       \* the biometric table
    enrol_df,     \* the enrolment table
    pc,           \* the next call of the pipeline
    metrics_df,   \* calculate_district_metrics's result
    forecast_df,  \* generate_forecast's result
    fc,           \* generate_forecast's locals when it returned
    validation,   \* run_backtest_validation's result
    bt,           \* run_backtest_validation's locals when it returned
    exc           \* the exception that ended the pipeline, or "none"

vars == <<bio_df, enrol_df, pc, metrics_df, forecast_df, fc, validation, bt, exc>>

NoResult == [kind |-> "none"]

\* load_dataset and clean_data have run: the tables as get_data holds them
Init ==
    /\ \/ \E nb \in 0..MaxRows, ne \in 0..MaxRows :
             /\ nb + ne <= MaxRows
             /\ bio_df \in SmallBio(nb) \cup {DropDate(b) : b \in SmallBio(nb)}
                           \cup {EmptyDataFrame}
             /\ enrol_df \in EnrolTables(ne) \cup {EmptyDataFrame}
       \/ /\ bio_df \in SeriesBio
          /\ enrol_df \in EnrolTables(0) \cup {[columns |-> EnrolColumns,
                                                 rows |-> <<EnrolType(1)>>]}
    /\ pc = "feature_engineering"
    /\ metrics_df = EmptyDataFrame
    /\ forecast_df = EmptyDataFrame
    /\ fc = NoResult
    /\ validation = NoResult
    /\ bt = NoResult
    /\ exc = "none"

\* ---------------------------------------------------- feature_engineering
\* the biometric half: the derived columns of a non-empty table. The demographic
\* table gets the same two columns and no later stage reads it.
WithFeatures(r) ==
    [c \in (DOMAIN r) \cup {"total_biometric_updates", "child_teen_update_share"} |->
        IF c = "total_biometric_updates" THEN r.bio_age_5_17 + r.bio_age_17_
        ELSE IF c = "child_teen_update_share"
             THEN FDiv(F(r.bio_age_5_17), F(r.bio_age_5_17 + r.bio_age_17_))
        ELSE r[c]]

feature_engineering(bio) ==
    IF Empty(bio) THEN bio
    ELSE [columns |-> bio.columns \cup {"total_biometric_updates", "child_teen_update_share"},
          rows |-> [i \in DOMAIN bio.rows |-> WithFeatures(bio.rows[i])]]

FeatureEngineering ==
    /\ pc = "feature_engineering"
    /\ bio_df' = feature_engineering(bio_df)
    /\ pc' = "calculate_district_metrics"
    /\ UNCHANGED <<enrol_df, metrics_df, forecast_df, fc, validation, bt, exc>>

\* --------------------------------------------- calculate_district_metrics
RECURSIVE SumSeq(_)
SumSeq(s) == IF s = <<>> THEN 0 ELSE Head(s) + SumSeq(Tail(s))

SameKey(r, k) == r.state = Keys[k].state /\ r.district = Keys[k].district

\* the keys of df.groupby(['state', 'district']), in key order
GroupKeys(df) == {k \in DOMAIN Keys : \E i \in DOMAIN df.rows : SameKey(df.rows[i], k)}
RECURSIVE Ascending(_)
Ascending(S) ==
    IF S = {} THEN <<>>
    ELSE LET m == CHOOSE x \in S : \A y \in S : x <= y IN <<m>> \o Ascending(S \ {m})

\* bio_df.groupby(...)['total_biometric_updates'].sum() of one district
BioAgg(bio, k) ==
    SumSeq([i \in DOMAIN bio.rows |->
        IF SameKey(bio.rows[i], k) THEN bio.rows[i].total_biometric_updates ELSE 0])

\* enrol_agg['total_enrolment'] of one district
EnrolAgg(enrol, k) ==
    SumSeq([i \in DOMAIN enrol.rows |->
        IF SameKey(enrol.rows[i], k)
        THEN enrol.rows[i].age_0_5 + enrol.rows[i].age_5_17 + enrol.rows[i].age_18_greater
        ELSE 0])

\* Series.fillna(v)
FillNa(x, v) == IF IsNaN(x) THEN v ELSE x

\* the left merge gives NaN to a district absent from enrol_agg; then fillna(1)
TotalEnrolment(enrol, k) ==
    FillNa(IF k \in GroupKeys(enrol) THEN F(EnrolAgg(enrol, k)) ELSE NaN, F(1))

\* bio_sorted['date'].mean(): NaT is skipped, and the mean of no date is NaT
MidDate(bio) ==
    LET dated == {i \in DOMAIN bio.rows : bio.rows[i].date # NaT} IN
    Norm(SumSeq([i \in DOMAIN bio.rows |-> IF i \in dated THEN bio.rows[i].date ELSE 0]),
         Cardinality(dated))

\* group['date'] > mid_date and group['date'] <= mid_date: false for NaT
After(date, mid) == date # NaT /\ FGt(F(date), mid)
AtOrBefore(date, mid) == date # NaT /\ FLe(F(date), mid)

Recent(bio, k, mid) ==
    SumSeq([i \in DOMAIN bio.rows |->
        IF SameKey(bio.rows[i], k) /\ After(bio.rows[i].date, mid)
        THEN bio.rows[i].total_biometric_updates ELSE 0])
Past(bio, k, mid) ==
    SumSeq([i \in DOMAIN bio.rows |->
        IF SameKey(bio.rows[i], k) /\ AtOrBefore(bio.rows[i].date, mid)
        THEN bio.rows[i].total_biometric_updates ELSE 0])

\* a growth rate that splits each district at the mean date of its own rows
GrowthRate_OwnSplit(bio, k) ==
    IF "date" \in bio.columns
    THEN LET mid == MidDate([columns |-> bio.columns,
                             rows |-> SelectSeq(bio.rows, LAMBDA r : SameKey(r, k))])
             recent == Recent(bio, k, mid)
             past == Past(bio, k, mid)
         IN  IF past > 0 THEN FDiv(F(recent - past), F(past)) ELSE F(0)
    ELSE F(0)

GrowthRate(bio, k) ==
    IF "date" \in bio.columns
    THEN LET mid == MidDate(bio)
             recent == Recent(bio, k, mid)
             past == Past(bio, k, mid)
         IN  IF past > 0 THEN FDiv(F(recent - past), F(past)) ELSE F(0)
    ELSE F(0)

\* a clip that forgets the upper bound
Clip_NoUpper(x, lo, hi) ==
    IF IsNaN(x) THEN x ELSE IF FLt(x, lo) THEN lo ELSE x

\* Series.clip(lower, upper): NaN stays NaN
Clip(x, lo, hi) ==
    IF IsNaN(x) THEN x ELSE IF FLt(x, lo) THEN lo ELSE IF FGt(x, hi) THEN hi ELSE x

GrowthMultiplier(g) == FAdd(F(1), Clip(g, <<-1, 2>>, F(2)))

\* one row of metrics before the normalisation
MetricRow(bio, enrol, k) ==
    LET total == BioAgg(bio, k)
        enrolment == TotalEnrolment(enrol, k)
        growth == GrowthRate(bio, k)
        density == FDiv(F(total), enrolment)
        mult == GrowthMultiplier(growth)
    IN  [state |-> Keys[k].state, district |-> Keys[k].district,
         total_biometric_updates |-> total, total_enrolment |-> enrolment,
         growth_rate |-> growth, update_density |-> density,
         growth_multiplier |-> mult,
         AUPS |-> FMul(FMul(density, mult), F(1000))]

\* Series.max(): NaN is skipped, and the maximum of no value is NaN
RECURSIVE FMax(_)
FMax(s) ==
    IF s = <<>> THEN NaN
    ELSE LET m == FMax(Tail(s)) IN
         IF IsNaN(Head(s)) THEN m
         ELSE IF IsNaN(m) \/ FGt(Head(s), m) THEN Head(s) ELSE m

AUPSNormalized(aups, max_score) ==
    IF FGt(max_score, F(0)) THEN FMul(FDiv(aups, max_score), F(100)) ELSE F(0)

Normalized(rows) ==
    LET max_score == FMax([i \in DOMAIN rows |-> rows[i].AUPS]) IN
    [i \in DOMAIN rows |->
        [c \in (DOMAIN rows[i]) \cup {"AUPS_Normalized"} |->
            IF c = "AUPS_Normalized" THEN AUPSNormalized(rows[i].AUPS, max_score)
            ELSE rows[i][c]]]

\* the KeyErrors of the groupbys and of the merge with an empty growth_df
MetricsRaises(bio, enrol) ==
    \/ ~({"state", "district", "total_biometric_updates"} \subseteq bio.columns)
    \/ ~(EnrolColumns \subseteq enrol.columns)
    \/ "date" \in bio.columns /\ bio.rows = <<>>

\* the rows of metrics in group order, before sort_values('AUPS')
MetricRows(bio, enrol) ==
    LET ks == Ascending(GroupKeys(bio)) IN
    Normalized([j \in DOMAIN ks |-> MetricRow(bio, enrol, ks[j])])

\* a precedes b in sort_values('AUPS', ascending=False): NaN goes last
Precedes(a, b) == (~IsNaN(a) /\ IsNaN(b)) \/ FGt(a, b)

\* the orders sort_values may give: rows of equal AUPS come in any order
SortedByAUPS(rows) ==
    {[j \in DOMAIN rows |-> rows[p[j]]] :
        p \in {q \in [DOMAIN rows -> DOMAIN rows] :
                 /\ \A i, j \in DOMAIN rows : i # j => q[i] # q[j]
                 /\ \A i, j \in DOMAIN rows :
                        i < j => ~Precedes(rows[q[j]].AUPS, rows[q[i]].AUPS)}}

MetricsColumns ==
    {"state", "district", "total_biometric_updates", "total_enrolment", "growth_rate",
     "update_density", "growth_multiplier", "AUPS", "AUPS_Normalized"}

\* a call that writes each district's total back into the caller's table
Arguments_WrittenBack(bio, enrol) ==
    [bio |-> [columns |-> bio.columns,
              rows |-> [i \in DOMAIN bio.rows |->
                  [bio.rows[i] EXCEPT !.total_biometric_updates =
                      SumSeq([j \in DOMAIN bio.rows |->
                          IF /\ bio.rows[j].state = bio.rows[i].state
                             /\ bio.rows[j].district = bio.rows[i].district
                          THEN bio.rows[j].total_biometric_updates ELSE 0])]]],
     enrol |-> enrol]

\* the two tables as the call leaves them to its caller: groupby, merge and
\* sort_values build new frames, and the only column assignments are to
\* enrol_agg and metrics, so neither argument is written to
Arguments(bio, enrol) == [bio |-> bio, enrol |-> enrol]

CalculateDistrictMetrics ==
    /\ pc = "calculate_district_metrics"
    /\ IF MetricsRaises(bio_df, enrol_df)
       THEN /\ exc' = "KeyError"
            /\ pc' = "raised"
            /\ UNCHANGED <<metrics_df, bio_df, enrol_df>>
       ELSE /\ \E unsorted \in {MetricRows(bio_df, enrol_df)} :
                \E rows \in SortedByAUPS(unsorted) :
                  metrics_df' = [columns |-> MetricsColumns, rows |-> rows]
            /\ \E left \in {Arguments(bio_df, enrol_df)} :
                  bio_df' = left.bio /\ enrol_df' = left.enrol
            /\ pc' = "generate_forecast"
            /\ UNCHANGED exc
    /\ UNCHANGED <<forecast_df, fc, validation, bt>>

\* calculate_district_metrics called a second time, on the tables as the first
\* call left them; the run is followed up to the return of this call
Recalculate ==
    /\ pc = "generate_forecast"
    /\ IF MetricsRaises(bio_df, enrol_df)
       THEN /\ exc' = "KeyError"
            /\ UNCHANGED <<metrics_df, bio_df, enrol_df>>
       ELSE /\ \E unsorted \in {MetricRows(bio_df, enrol_df)} :
                \E rows \in SortedByAUPS(unsorted) :
                  metrics_df' = [columns |-> MetricsColumns, rows |-> rows]
            /\ \E left \in {Arguments(bio_df, enrol_df)} :
                  bio_df' = left.bio /\ enrol_df' = left.enrol
            /\ UNCHANGED exc
    /\ pc' = "recalculated"
    /\ UNCHANGED <<forecast_df, fc, validation, bt>>

\* ------------------------------------------------------- generate_forecast
\* df[df['state'] == state]
FilterState(df, state) ==
    [columns |-> df.columns, rows |-> SelectSeq(df.rows, LAMBDA r : r.state = state)]

\* daily: the dates of df.groupby('date') (NaT is no group), ascending
DailyDates(df) == Ascending({df.rows[i].date : i \in DOMAIN df.rows} \ {NaT})
DailyTotal(df, d) ==
    SumSeq([i \in DOMAIN df.rows |->
        IF df.rows[i].date = d THEN df.rows[i].total_biometric_updates ELSE 0])
Daily(df) ==
    LET ds == DailyDates(df) IN
    [j \in DOMAIN ds |-> [date |-> ds[j], total_biometric_updates |-> DailyTotal(df, ds[j])]]

\* Series.tail(n)
TailN(s, n) == IF Len(s) <= n THEN s ELSE SubSeq(s, Len(s) - n + 1, Len(s))

\* Series.pct_change() from the second element on: x[i] / x[i-1] - 1
PctChange(x) ==
    [i \in 1..(Len(x) - 1) |-> FSub(FDiv(F(x[i + 1]), F(x[i])), F(1))]

\* Series.mean(): NaN is skipped, and the mean of no value is NaN
RECURSIVE FSum(_)
FSum(s) ==
    IF s = <<>> THEN F(0)
    ELSE IF IsNaN(Head(s)) THEN FSum(Tail(s)) ELSE FAdd(Head(s), FSum(Tail(s)))
FMean(s) ==
    FDiv(FSum(s), F(Cardinality({i \in DOMAIN s : ~IsNaN(s[i])})))

\* Python's min(a, b) and max(a, b): b only when b < a (b > a), so a NaN a stays
PyMin(a, b) == IF FLt(b, a) THEN b ELSE a
PyMax(a, b) == IF FGt(b, a) THEN b ELSE a

GrowthFactor(avg_growth) == FAdd(F(1), PyMax(PyMin(avg_growth, <<1, 20>>), <<-1, 20>>))

Uncertainty(i) == FAdd(<<1, 20>>, FMul(<<1, 100>>, F(i)))

RECURSIVE Power(_, _)
Power(g, i) == IF i = 0 THEN F(1) ELSE FMul(Power(g, i - 1), g)

\* current_val after i passes of the loop
CurrentVal(last_val, growth_factor, i) == FMul(F(last_val), Power(growth_factor, i))

\* a band with the two signs exchanged
ForecastPoint_SignsExchanged(last_val, last_date, growth_factor, i) ==
    LET current_val == CurrentVal(last_val, growth_factor, i) IN
    [date |-> last_date + i,
     forecast |-> Trunc(current_val),
     lower_ci |-> Trunc(FMul(current_val, FAdd(F(1), Uncertainty(i)))),
     upper_ci |-> Trunc(FMul(current_val, FSub(F(1), Uncertainty(i))))]

ForecastPoint(last_val, last_date, growth_factor, i) ==
    LET current_val == CurrentVal(last_val, growth_factor, i) IN
    [date |-> last_date + i,
     forecast |-> Trunc(current_val),
     lower_ci |-> Trunc(FMul(current_val, FSub(F(1), Uncertainty(i)))),
     upper_ci |-> Trunc(FMul(current_val, FAdd(F(1), Uncertainty(i))))]

ForecastColumns == {"date", "forecast", "lower_ci", "upper_ci"}

\* the loop of generate_forecast, from the locals it starts with.
\* int(current_val) raises ValueError for a NaN.
Project(locals) ==
    IF locals.days >= 1 /\ IsNaN(CurrentVal(locals.last_val, locals.growth_factor, 1))
    THEN [exc |-> "ValueError", result |-> EmptyDataFrame, locals |-> locals]
    ELSE [exc |-> "none",
          result |-> IF locals.days >= 1
                     THEN [columns |-> ForecastColumns,
                           rows |-> [i \in 1..locals.days |->
                               ForecastPoint(locals.last_val, locals.last_date,
                                             locals.growth_factor, i)]]
                     ELSE EmptyDataFrame,
          locals |-> locals]

\* a threshold of 13 points
TooShort_OffByOne(last_14) == Len(last_14) < TRAIL - 1

\* len(last_14) < 14: not enough data
TooShort(last_14) == Len(last_14) < TRAIL

\* generate_forecast from the daily totals on
ForecastOf(daily, days) ==
    LET last_14 == TailN(daily, TRAIL) IN
    IF TooShort(last_14)
    THEN [exc |-> "none", result |-> EmptyDataFrame,
          locals |-> [kind |-> "short", n_daily |-> Len(daily)]]
    ELSE
    LET x == [j \in DOMAIN last_14 |-> last_14[j].total_biometric_updates] IN
    CHOOSE r \in
        {Project([kind |-> "forecast", n_daily |-> Len(daily), last_14 |-> x,
                  avg_growth |-> avg_growth, last_val |-> x[Len(x)],
                  last_date |-> last_14[Len(last_14)].date,
                  growth_factor |-> GrowthFactor(avg_growth),
                  days |-> days,
                  uncertainty |-> [i \in 1..days |-> Uncertainty(i)]]) :
            avg_growth \in {FMean(PctChange(x))}} : TRUE

\* the call generate_forecast(df, state, days): its result, its locals when it
\* returned and the exception it raises
generate_forecast(df0, state, days) ==
    IF state # "All" /\ "state" \notin df0.columns
    THEN [exc |-> "KeyError", result |-> EmptyDataFrame, locals |-> NoResult]
    ELSE
    LET df == IF state # "All" THEN FilterState(df0, state) ELSE df0 IN
    IF Empty(df) \/ "date" \notin df.columns
    THEN [exc |-> "none", result |-> EmptyDataFrame, locals |-> [kind |-> "no_data"]]
    ELSE CHOOSE r \in {ForecastOf(daily, days) : daily \in {Daily(df)}} : TRUE

GenerateForecast ==
    /\ pc = "generate_forecast"
    /\ \E state \in {"All"} \cup States, days \in 0..MaxDays :
         \E r \in {generate_forecast(bio_df, state, days)} :
         /\ forecast_df' = r.result
         /\ fc' = [c \in (DOMAIN r.locals) \cup {"state"} |->
                      IF c = "state" THEN state ELSE r.locals[c]]
         /\ exc' = r.exc
         /\ pc' = IF r.exc = "none" THEN "run_backtest_validation" ELSE "raised"
    /\ UNCHANGED <<bio_df, enrol_df, metrics_df, validation, bt>>

\* ------------------------------------------------- run_backtest_validation
\* sort_values('date'): a date precedes a later date, and NaT goes last
DateBefore(d1, d2) == d1 # NaT /\ (d2 = NaT \/ d1 < d2)

\* the index sets bio_sorted.iloc[:mid_idx] may hold: rows of equal date (and the
\* NaT rows) come in any order, so any of them may fill the first half
FirstHalves(rows, mid_idx) ==
    IF mid_idx = 0 THEN {{}}
    ELSE LET Lower(c) == {i \in DOMAIN rows : DateBefore(rows[i].date, c)}
             Ties(c) == {i \in DOMAIN rows : rows[i].date = c}
             cut == CHOOSE c \in {rows[i].date : i \in DOMAIN rows} :
                        /\ Cardinality(Lower(c)) < mid_idx
                        /\ mid_idx <= Cardinality(Lower(c)) + Cardinality(Ties(c))
         IN  {Lower(cut) \cup S :
                 S \in {T \in SUBSET Ties(cut) :
                          Cardinality(T) = mid_idx - Cardinality(Lower(cut))}}

RECURSIVE Pick(_, _)
Pick(rows, I) ==
    IF rows = <<>> THEN <<>>
    ELSE Pick(SubSeq(rows, 1, Len(rows) - 1), I)
         \o (IF Len(rows) \in I THEN <<rows[Len(rows)]>> ELSE <<>>)

\* the floats of s in ascending order (s holds no NaN)
RECURSIVE FSorted(_)
FSorted(s) ==
    IF s = <<>> THEN <<>>
    ELSE LET m == CHOOSE i \in DOMAIN s : \A j \in DOMAIN s : ~FLt(s[j], s[i]) IN
         <<s[m]>> \o FSorted(SubSeq(s, 1, m - 1) \o SubSeq(s, m + 1, Len(s)))

\* numpy's linear interpolation between two neighbours
Lerp(a, b, t) ==
    IF FGe(t, <<1, 2>>)
    THEN FSub(b, FMul(FSub(b, a), FSub(F(1), t)))
    ELSE FAdd(a, FMul(FSub(b, a), t))

\* Series.quantile(q), q = qn/qd: NaN is skipped, linear interpolation
Quantile(s, qn, qd) ==
    LET v == FSorted(SelectSeq(s, LAMBDA a : ~IsNaN(a)))
        m == Len(v)
    IN  IF m = 0 THEN NaN
        ELSE LET lo == ((m - 1) * qn) \div qd
                 hi == IF lo + 1 < m THEN lo + 1 ELSE m - 1
             IN  Lerp(v[lo + 1], v[hi + 1], Norm((m - 1) * qn - lo * qd, qd))

\* the districts of t1_metrics with AUPS >= threshold
Stressed(t1_metrics) ==
    LET threshold == Quantile([i \in DOMAIN t1_metrics |-> t1_metrics[i].AUPS], 4, 5) IN
    {k \in DOMAIN Keys :
        \E i \in DOMAIN t1_metrics :
            /\ SameKey(t1_metrics[i], k)
            /\ FGe(t1_metrics[i].AUPS, threshold)}

\* the mean of t2_agg['total_biometric_updates'] over the districts ks (NaN for none)
MeanVolume(t2, ks) ==
    Norm(SumSeq([j \in 1..Len(Keys) |-> IF j \in ks THEN BioAgg(t2, j) ELSE 0]),
         Cardinality(ks))

\* the ratio taken the other way round
Lift_Inverted(t2_stressed_vol, t2_normal_vol) ==
    IF FGt(t2_normal_vol, F(0)) THEN FDiv(t2_normal_vol, t2_stressed_vol) ELSE F(1)

Lift(t2_stressed_vol, t2_normal_vol) ==
    IF FGt(t2_normal_vol, F(0)) THEN FDiv(t2_stressed_vol, t2_normal_vol) ELSE F(1)

\* the function from the split on
Backtest(t1_df, t2_df, enrol) ==
    IF Empty(t1_df) \/ Empty(t2_df)
    THEN [exc |-> "none",
          result |-> [kind |-> "dict", accuracy |-> 0, desc |-> "Insufficient data split"]]
    ELSE IF MetricsRaises(t1_df, enrol)
    THEN [exc |-> "KeyError", result |-> NoResult]
    ELSE
    LET stressed_districts == Stressed(MetricRows(t1_df, enrol))
        both == GroupKeys(t2_df) \cap stressed_districts
        left_only == GroupKeys(t2_df) \ stressed_districts
        t2_stressed_vol == MeanVolume(t2_df, both)
        t2_normal_vol == MeanVolume(t2_df, left_only)
    IN  [exc |-> "none",
         result |-> [kind |-> "validation",
                     is_valid |-> FGt(t2_stressed_vol, t2_normal_vol),
                     stressed_avg_t2 |-> t2_stressed_vol,
                     normal_avg_t2 |-> t2_normal_vol,
                     lift |-> Lift(t2_stressed_vol, t2_normal_vol)],
         stressed |-> stressed_districts]

RunBacktestValidation ==
    /\ pc = "run_backtest_validation"
    /\ IF "date" \notin bio_df.columns
       THEN /\ validation' = [kind |-> "dict", accuracy |-> 0, desc |-> "No date column"]
            /\ bt' = [kind |-> "no_date"]
            /\ exc' = "none"
            /\ pc' = "done"
       ELSE \E I \in FirstHalves(bio_df.rows, Len(bio_df.rows) \div 2) :
            \E t1_df \in {[columns |-> bio_df.columns, rows |-> Pick(bio_df.rows, I)]} :
            \E t2_df \in {[columns |-> bio_df.columns,
                           rows |-> Pick(bio_df.rows, (DOMAIN bio_df.rows) \ I)]} :
            \E r \in {Backtest(t1_df, t2_df, enrol_df)} :
                /\ validation' = r.result
                /\ bt' = [kind |-> "split", mid_idx |-> Len(bio_df.rows) \div 2,
                          t1 |-> t1_df.rows, t2 |-> t2_df.rows,
                          stressed |-> IF r.result.kind = "validation"
                                       THEN r.stressed ELSE {}]
                /\ exc' = r.exc
                /\ pc' = IF r.exc = "none" THEN "done" ELSE "raised"
    /\ UNCHANGED <<bio_df, enrol_df, metrics_df, forecast_df, fc>>

Next ==
    \/ FeatureEngineering
    \/ CalculateDistrictMetrics
    \/ Recalculate
    \/ GenerateForecast
    \/ RunBacktestValidation
Spec == Init /\ [][Next]_vars

\* ================================================================== claims

\* C1 (as claimed): every row of calculate_district_metrics has
\* total_enrolment >= 1, so that update_density is never a division by zero.
C1_TotalEnrolmentAtLeastOne ==
    \A i \in DOMAIN metrics_df.rows :
        /\ FGe(metrics_df.rows[i].total_enrolment, F(1))
        /\ IsFinite(metrics_df.rows[i].update_density)

\* C2 (as claimed): with an empty input table no stage of the pipeline raises.
C2_EmptyInputNeverRaises ==
    (Empty(bio_df) \/ Empty(enrol_df)) => exc = "none"

\* C3 (as claimed): every row has 0 <= AUPS_Normalized <= 100; when the maximum
\* raw AUPS is > 0 the row holding it has AUPS_Normalized = 100, and when no raw
\* AUPS is > 0 every row has AUPS_Normalized = 0.
C3_NormalizedRange ==
    LET rows == metrics_df.rows
        IsMax(i) == /\ ~IsNaN(rows[i].AUPS)
                    /\ \A j \in DOMAIN rows : ~FGt(rows[j].AUPS, rows[i].AUPS)
        Positive == \E j \in DOMAIN rows : FGt(rows[j].AUPS, F(0))
    IN  \A i \in DOMAIN rows :
            /\ FLe(F(0), rows[i].AUPS_Normalized)
            /\ FLe(rows[i].AUPS_Normalized, F(100))
            /\ (Positive /\ IsMax(i)) => rows[i].AUPS_Normalized = F(100)
            /\ ~Positive => rows[i].AUPS_Normalized = F(0)

\* C4 (as claimed): when the trailing 14 daily totals all equal v >= 0, the call
\* completes with avg_growth = 0 and growth_factor = 1, returns `days` points,
\* each with forecast = v, and the uncertainty strictly increases with i.
C4_ConstantSeries ==
    (fc.kind = "forecast" /\ \A j \in DOMAIN fc.last_14 : fc.last_14[j] = fc.last_14[1])
    => /\ exc = "none"
       /\ fc.avg_growth = F(0)
       /\ fc.growth_factor = F(1)
       /\ Len(forecast_df.rows) = fc.days
       /\ \A i \in DOMAIN forecast_df.rows : forecast_df.rows[i].forecast = fc.last_14[1]
       /\ \A i \in 1..(fc.days - 1) : FLt(fc.uncertainty[i], fc.uncertainty[i + 1])

\* the T2 volume of a district and the mean over a set of districts, from the
\* halves the backtest split the rows into
T2Volume(k) ==
    SumSeq([i \in DOMAIN bt.t2 |->
        IF SameKey(bt.t2[i], k) THEN bt.t2[i].total_biometric_updates ELSE 0])
T2Districts == {k \in DOMAIN Keys : \E i \in DOMAIN bt.t2 : SameKey(bt.t2[i], k)}
T2Mean(ks) ==
    Norm(SumSeq([k \in DOMAIN Keys |-> IF k \in ks THEN T2Volume(k) ELSE 0]),
         Cardinality(ks))
StressedMean == T2Mean(T2Districts \cap bt.stressed)
NormalMean == T2Mean(T2Districts \ bt.stressed)

\* C5 (as claimed): lift is mean(stressed) / mean(normal) when the normal mean is
\* > 0 and the ratio is defined, 1.0 when it is undefined, and never NaN.
C5_LiftDefined ==
    validation.kind = "validation"
    => /\ ~IsNaN(validation.lift)
       /\ IF FGt(NormalMean, F(0)) /\ ~IsNaN(StressedMean)
          THEN validation.lift = FDiv(StressedMean, NormalMean)
          ELSE validation.lift = F(1)

\* the dated rows of a table
Dated(df) == [columns |-> df.columns, rows |-> SelectSeq(df.rows, LAMBDA r : r.date # NaT)]

\* C6 (as claimed): a row with a null date takes part in no time-ordered
\* computation: the growth rates are those of the dated rows alone, the daily
\* totals of the forecaster too, and the backtest splits the dated rows alone
\* (no null-dated row in T1 or T2, the midpoint counted over the dated rows).
C6_NullDateExcluded ==
    /\ ("date" \in bio_df.columns /\ metrics_df.rows # <<>>)
       => \A i \in DOMAIN metrics_df.rows : \A k \in DOMAIN Keys :
             SameKey(metrics_df.rows[i], k)
             => metrics_df.rows[i].growth_rate = GrowthRate(Dated(bio_df), k)
    /\ fc.kind = "forecast"
       => fc.last_14 =
            LET df == Dated(IF fc.state = "All" THEN bio_df
                            ELSE FilterState(bio_df, fc.state))
                d == TailN(Daily(df), TRAIL)
            IN  [j \in DOMAIN d |-> d[j].total_biometric_updates]
    /\ bt.kind = "split"
       => /\ \A i \in DOMAIN bt.t1 : bt.t1[i].date # NaT
          /\ \A i \in DOMAIN bt.t2 : bt.t2[i].date # NaT
          /\ bt.mid_idx = Len(Dated(bio_df).rows) \div 2

\* C7 (as claimed): with both halves non-empty, a strictly higher mean T2 volume
\* of the stressed districts gives is_valid = True and lift > 1.0, and a strictly
\* lower one gives is_valid = False.
C7_BacktestDirection ==
    validation.kind = "validation"
    => /\ FGt(StressedMean, NormalMean)
          => (validation.is_valid /\ FGt(validation.lift, F(1)))
       /\ FLt(StressedMean, NormalMean) => ~validation.is_valid

\* C7 (amended): ... gives is_valid = True, and lift > 1.0 when the normal mean
\* is > 0 but lift = 1.0 when the normal mean is 0; a strictly lower mean gives
\* is_valid = False.
C7_BacktestDirectionAmended ==
    validation.kind = "validation"
    => /\ FGt(StressedMean, NormalMean)
          => /\ validation.is_valid
             /\ FGt(NormalMean, F(0)) => FGt(validation.lift, F(1))
             /\ NormalMean = F(0) => validation.lift = F(1)
       /\ FLt(StressedMean, NormalMean) => ~validation.is_valid

\* C7 witness: stressed districts with a higher T2 mean than the normal ones, whose
\* mean is positive, and a validated result with lift > 1
C7_Witness ==
    /\ validation.kind = "validation"
    /\ FGt(StressedMean, NormalMean)
    /\ FGt(NormalMean, F(0))
    /\ validation.is_valid
    /\ FGt(validation.lift, F(1))

\* C8: every point generate_forecast produces has lower_ci <= forecast <= upper_ci.
C8_BandOrdering ==
    \A i \in DOMAIN forecast_df.rows :
        /\ forecast_df.rows[i].lower_ci <= forecast_df.rows[i].forecast
        /\ forecast_df.rows[i].forecast <= forecast_df.rows[i].upper_ci

\* C8 witness: a forecast of MaxDays points whose band is strict around a
\* positive forecast
C8_Witness ==
    /\ Len(forecast_df.rows) = MaxDays
    /\ \A i \in DOMAIN forecast_df.rows :
          /\ 0 < forecast_df.rows[i].lower_ci
          /\ forecast_df.rows[i].lower_ci < forecast_df.rows[i].forecast
          /\ forecast_df.rows[i].forecast < forecast_df.rows[i].upper_ci

\* C9: every row of calculate_district_metrics has growth_multiplier in [0.5, 3.0].
C9_GrowthMultiplierRange ==
    \A i \in DOMAIN metrics_df.rows :
        /\ FLe(<<1, 2>>, metrics_df.rows[i].growth_multiplier)
        /\ FLe(metrics_df.rows[i].growth_multiplier, F(3))

\* C9 witness: a district whose raw growth rate is above 2.0 beside one whose
\* raw growth rate is below -0.5
C9_Witness ==
    /\ \E i \in DOMAIN metrics_df.rows :
          /\ FGt(metrics_df.rows[i].growth_rate, F(2))
          /\ metrics_df.rows[i].growth_multiplier = F(3)
    /\ \E i \in DOMAIN metrics_df.rows :
          /\ FLt(metrics_df.rows[i].growth_rate, <<-1, 2>>)
          /\ metrics_df.rows[i].growth_multiplier = <<1, 2>>

\* the distinct dated days of the rows the state filter keeps
DatedDays(df, state) ==
    IF "date" \in df.columns
    THEN {df.rows[i].date : i \in {j \in DOMAIN df.rows :
                                     state = "All" \/ df.rows[j].state = state}} \ {NaT}
    ELSE {}

\* C10: generate_forecast returns an empty result whenever the filtered input has
\* fewer than 14 distinct dated days, whatever `days` is; with 14 or more it goes
\* on to the forecast loop.
C10_ShortHistoryEmpty ==
    fc.kind # "none"
    => /\ Cardinality(DatedDays(bio_df, fc.state)) < TRAIL
          => (forecast_df = EmptyDataFrame /\ exc = "none" /\ fc.kind # "forecast")
       /\ Cardinality(DatedDays(bio_df, fc.state)) >= TRAIL
          => (fc.kind = "forecast"
              /\ (exc = "none" => Len(forecast_df.rows) = fc.days))

\* C10 witness: 13 distinct dated days and an empty result
C10_Witness ==
    /\ fc.kind = "short"
    /\ Cardinality(DatedDays(bio_df, fc.state)) = TRAIL - 1
    /\ forecast_df = EmptyDataFrame

\* C11 (as claimed): when the biometric table has no date column no time-based
\* computation fails: calculate_district_metrics gives every district
\* growth_rate = 0.0, generate_forecast returns an empty result and
\* run_backtest_validation returns the "No date column" result.
C11_NoDateDefaults ==
    "date" \notin bio_df.columns
    => /\ exc = "none"
       /\ pc \in {"generate_forecast", "run_backtest_validation", "done"}
          => \A i \in DOMAIN metrics_df.rows : metrics_df.rows[i].growth_rate = F(0)
       /\ fc.kind # "none" => (fc.kind = "no_data" /\ forecast_df = EmptyDataFrame)
       /\ pc = "done"
          => validation = [kind |-> "dict", accuracy |-> 0, desc |-> "No date column"]

\* the (state, district, AUPS_Normalized) triples of a metrics table
Triples(metrics) ==
    {<<metrics.rows[i].state, metrics.rows[i].district, metrics.rows[i].AUPS_Normalized>> :
        i \in DOMAIN metrics.rows}

Nearest(n, x) ==
    /\ IsFinite(x)
    /\ FLe(FSub(x, <<1, 2>>), F(n))
    /\ FLe(F(n), FAdd(x, <<1, 2>>))

\* C13 (as claimed): generate_forecast returns exactly `days` points, dated
\* last_date + 1 .. last_date + days in ascending order, and the forecast of
\* point i is last_val * growth_factor^i rounded to the nearest integer, with
\* growth_factor = 1 + clamp(avg_growth, -0.05, 0.05) and last_val the last
\* observed daily total.
C13_RoundedCompound ==
    fc.kind = "forecast"
    => /\ exc = "none"
       /\ fc.last_val = fc.last_14[Len(fc.last_14)]
       /\ fc.growth_factor = FAdd(F(1), Clip(fc.avg_growth, <<-1, 20>>, <<1, 20>>))
       /\ Len(forecast_df.rows) = fc.days
       /\ \A i \in DOMAIN forecast_df.rows :
             /\ forecast_df.rows[i].date = fc.last_date + i
             /\ Nearest(forecast_df.rows[i].forecast,
                        FMul(F(fc.last_val), Power(fc.growth_factor, i)))

\* the number of dated rows of the biometric table and the sum of their dates:
\* a row is dated strictly after the mean date when date * count > sum
DateCount == Cardinality({i \in DOMAIN bio_df.rows : bio_df.rows[i].date # NaT})
DateSum ==
    SumSeq([i \in DOMAIN bio_df.rows |->
        IF bio_df.rows[i].date # NaT THEN bio_df.rows[i].date ELSE 0])
AfterMean(r, n, s) == r.date # NaT /\ r.date * n > s
UpToMean(r, n, s) == r.date # NaT /\ r.date * n <= s
\* the updates of district k on each side of the mean date
RecentVolume(k, n, s) ==
    SumSeq([i \in DOMAIN bio_df.rows |->
        IF SameKey(bio_df.rows[i], k) /\ AfterMean(bio_df.rows[i], n, s)
        THEN bio_df.rows[i].total_biometric_updates ELSE 0])
PastVolume(k, n, s) ==
    SumSeq([i \in DOMAIN bio_df.rows |->
        IF SameKey(bio_df.rows[i], k) /\ UpToMean(bio_df.rows[i], n, s)
        THEN bio_df.rows[i].total_biometric_updates ELSE 0])
SplitGrowth(recent, past) == IF past > 0 THEN Norm(recent - past, past) ELSE F(0)

\* C14: when calculate_district_metrics returns on a table with a date column,
\* every district of the biometric table has exactly one row of metrics, and its
\* growth_rate is (recent - past) / past when past > 0 and 0.0 otherwise, where
\* recent and past are the district's updates dated strictly after, and at or
\* before, the mean date of the whole table.
C14_GlobalSplit ==
    ("date" \in bio_df.columns /\ pc \in {"generate_forecast", "recalculated"})
    => \A n \in {DateCount} : \A s \in {DateSum} : \A k \in DOMAIN Keys :
          (\E i \in DOMAIN bio_df.rows : SameKey(bio_df.rows[i], k))
          => /\ Cardinality({j \in DOMAIN metrics_df.rows : SameKey(metrics_df.rows[j], k)}) = 1
             /\ \A g \in {SplitGrowth(RecentVolume(k, n, s), PastVolume(k, n, s))} :
                   \A j \in DOMAIN metrics_df.rows :
                      SameKey(metrics_df.rows[j], k) => metrics_df.rows[j].growth_rate = g

\* C14 witness: a district with updates on both sides of the mean date and a
\* growth rate that is not 0, beside a district whose updates all come after
\* the mean date of the table (past = 0, growth_rate 0.0)
C14_Witness ==
    /\ "date" \in bio_df.columns
    /\ pc = "generate_forecast"
    /\ \E j \in DOMAIN metrics_df.rows : \E k \in DOMAIN Keys :
          /\ SameKey(metrics_df.rows[j], k)
          /\ RecentVolume(k, DateCount, DateSum) > 0
          /\ PastVolume(k, DateCount, DateSum) > 0
          /\ metrics_df.rows[j].growth_rate # F(0)
    /\ \E j \in DOMAIN metrics_df.rows : \E k \in DOMAIN Keys :
          /\ SameKey(metrics_df.rows[j], k)
          /\ RecentVolume(k, DateCount, DateSum) > 0
          /\ PastVolume(k, DateCount, DateSum) = 0
          /\ metrics_df.rows[j].growth_rate = F(0)
====
